---- MODULE Spec2Model ----
(***************************************************************************)
(* Model of the pipeline supervision code of components/main/pipeline.rs:  *)
(* the constellation task (the "supervisor") builds Pipeline values with   *)
(* Pipeline::create and Pipeline::with_script and later calls load,        *)
(* grant_paint_permission, revoke_paint_permission, exit and to_sendable   *)
(* on them, while the script, layout and render tasks it spawned run       *)
(* concurrently.  Channels are the asynchronous, unbounded channels of     *)
(* std::comm: send fails the sending task when the receiver is gone,       *)
(* try_send reports it as false, recv_opt blocks until a message arrives   *)
(* or every sender is dropped.                                             *)
(***************************************************************************)
EXTENDS Naturals, Sequences, FiniteSets, TLC

\* Number of calls the supervisor makes.
MaxCalls == 3

\* Number of tasks that fail or hang on their own.
MaxFaults == 2

\* The values the caller passes in: pipeline ids (a pipeline and one more, so
\* that with_script has a parent), subpage ids and urls.
PipelineIds == {1, 2}
SubpageIds == {1}
Urls == {"about:a", "about:b"}

\* Option<SubpageId>
None == <<>>
Some(x) == <<x>>
OptionSubpageIds == {None} \cup {Some(s) : s \in SubpageIds}

\* Channel endpoints, named by the pipeline whose construction allocated them.
ScriptChan(c) == <<"ScriptChan", c>>
LayoutChan(p) == <<"LayoutChan", p>>
RenderChan(p) == <<"RenderChan", p>>
\* The two halves of channel(): (Sender<()>, Receiver<()>).
ShutdownChan(kind, p) == <<"shutdown_chan", kind, p>>
ShutdownPort(kind, p) == <<"shutdown_port", kind, p>>
ShutdownKinds == {"layout", "render"}

NoPipeline == [id |-> 0]
NoChan == <<"NoChan", 0>>

VARIABLES
    pipelines,  \* the Pipeline values the supervisor holds, by PipelineId
    script,     \* script tasks and their channels, by allocating pipeline
    layout,     \* layout tasks and their channels, by pipeline
    render,     \* render tasks and their channels, by pipeline
    shutdown,   \* the shutdown-acknowledgment channels, by <<kind, pipeline>>
    sup,        \* the supervisor's current call: operation, position, locals
    log,        \* what the supervisor's current (or last) call did, in order
    sendables,  \* the CompositionPipeline values to_sendable returned, by pipeline
    faults,     \* how many tasks have failed or hung on their own
    loader      \* the data loader's call of load: position, locals, channels

vars == <<pipelines, script, layout, render, shutdown, sup, log, sendables,
          faults, loader>>

\* ---- messages ---------------------------------------------------------------

LoadMsg(id, url) == [type |-> "LoadMsg", id |-> id, url |-> url]
ExitPipelineMsg(id) == [type |-> "ExitPipelineMsg", id |-> id]
NewLayoutInfo(old_pipeline_id, new_pipeline_id, subpage_id, layout_chan) ==
    [old_pipeline_id |-> old_pipeline_id, new_pipeline_id |-> new_pipeline_id,
     subpage_id |-> subpage_id, layout_chan |-> layout_chan]
AttachLayoutMsg(info) == [type |-> "AttachLayoutMsg", info |-> info]
PaintPermissionGranted == [type |-> "PaintPermissionGranted"]
PaintPermissionRevoked == [type |-> "PaintPermissionRevoked"]
\* script -> layout and layout -> render shutdown requests
ExitNowMsg == [type |-> "ExitNowMsg"]
ExitMsg == [type |-> "ExitMsg"]

\* ---- tasks and channels -----------------------------------------------------

\* A task slot: "unallocated" (no channel yet), "allocated" (channel made, the
\* port still a local of the constructor), "running", "exiting" (a layout task
\* that has passed the exit on), "hung" (alive, never takes another step),
\* "dead" (the task ended and its port is dropped).
NoTask == [state |-> "unallocated", queue |-> <<>>, script_chan |-> NoChan,
           layout_chan |-> NoChan, render_chan |-> NoChan,
           shutdown_chan |-> NoChan, attached |-> {}]

\* The receiver of a task's channel exists: a send is accepted.
ReceiverAlive(task) ==
    task.state \in {"allocated", "running", "exiting", "hung"}

Enqueue(tasks, c, msg) == [tasks EXCEPT ![c].queue = Append(@, msg)]

\* A shutdown-acknowledgment channel: who holds its sender ("unallocated",
\* "constructor", "Script", "Layout", "Render", "dropped") and how many ()
\* are buffered.
NoShutdown == [sender |-> "unallocated", buffered |-> 0]

\* ---- the supervisor's frame -------------------------------------------------

Idle == [op |-> "none", pc |-> "idle", id |-> 0, subpage_id |-> None,
         url |-> "", script_pipeline |-> 0, pipeline |-> NoPipeline,
         ret |-> "none", calls |-> 0]

\* The data loader before load is called.
NoLoader == [pc |-> "none"]

Init ==
    /\ loader = NoLoader
    /\ pipelines = [p \in PipelineIds |-> NoPipeline]
    /\ script = [p \in PipelineIds |-> NoTask]
    /\ layout = [p \in PipelineIds |-> NoTask]
    /\ render = [p \in PipelineIds |-> NoTask]
    /\ shutdown = [k \in ShutdownKinds \X PipelineIds |-> NoShutdown]
    /\ sup = Idle
    /\ log = <<>>
    /\ sendables = [p \in PipelineIds |-> {}]
    /\ faults = 0

\* ---- Pipeline::new ----------------------------------------------------------

\* Pipeline::new with layout_chan and render_chan stored in each other's field.
new_swapped(id, subpage_id, script_chan, layout_chan, render_chan, layout_shutdown_port, render_shutdown_port, url) ==
    [id |-> id,
     subpage_id |-> subpage_id,
     script_chan |-> script_chan,
     layout_chan |-> render_chan,
     render_chan |-> layout_chan,
     layout_shutdown_port |-> layout_shutdown_port,
     render_shutdown_port |-> render_shutdown_port,
     url |-> url]

new(id, subpage_id, script_chan, layout_chan, render_chan, layout_shutdown_port, render_shutdown_port, url) ==
    [id |-> id,
     subpage_id |-> subpage_id,
     script_chan |-> script_chan,
     layout_chan |-> layout_chan,
     render_chan |-> render_chan,
     layout_shutdown_port |-> layout_shutdown_port,
     render_shutdown_port |-> render_shutdown_port,
     url |-> url]

\* PipelineId is assigned by the caller and is unique: the next unused one.
FreshId(id) ==
    /\ id \in PipelineIds
    /\ pipelines[id] = NoPipeline
    /\ \A q \in PipelineIds : q < id => pipelines[q] # NoPipeline

Spawned(what) == [ev |-> "spawn", what |-> what]
Sent(chan, msg, ok) == [ev |-> "send", chan |-> chan, msg |-> msg, ok |-> ok]
Received(port, result) == [ev |-> "recv_opt", port |-> port, result |-> result]
Allocated == [ev |-> "channels"]
Returned == [ev |-> "return"]

\* ---- calls the supervisor makes ----------------------------------------------

\* The supervisor runs one call at a time.
CanCall == sup.pc = "idle" /\ sup.calls < MaxCalls

\* The frame of a new call of op on (or constructing) pipeline id.
Frame(op, id) ==
    [op |-> op, pc |-> "idle", id |-> id, subpage_id |-> None, url |-> "",
     script_pipeline |-> 0, pipeline |-> NoPipeline, ret |-> "none",
     calls |-> sup.calls + 1]

\* The channel a sender addresses.
ChanId(chan) == chan[2]

\* fail!(): the calling task unwinds and never runs again.
Fail(frame) == [frame EXCEPT !.pc = "failed"]
\* The end of a call: back to idle with the value returned.
Return(frame, ret) == [frame EXCEPT !.pc = "idle", !.ret = ret]

\* ---- Pipeline::create -------------------------------------------------------

\* create without its ScriptTask::create.
create_channels_no_script(id, subpage_id, url) ==
    /\ CanCall
    /\ FreshId(id)
    /\ script' = [script EXCEPT ![id].state = "allocated"]
    /\ layout' = [layout EXCEPT ![id].state = "allocated"]
    /\ render' = [render EXCEPT ![id].state = "allocated"]
    /\ shutdown' = [shutdown EXCEPT ![<<"render", id>>].sender = "held",
                                    ![<<"layout", id>>].sender = "held"]
    /\ sup' = [Frame("create", id) EXCEPT
                  !.pc = "create_spawn_render",
                  !.subpage_id = subpage_id,
                  !.url = url,
                  !.pipeline = new(id, subpage_id, ScriptChan(id),
                                   LayoutChan(id), RenderChan(id),
                                   ShutdownPort("layout", id),
                                   ShutdownPort("render", id), url)]
    /\ log' = <<Allocated>>
    /\ UNCHANGED <<pipelines, sendables, faults, loader>>

\* let (.._port, .._chan) = ..Chan::new(); channel(); Pipeline::new(..); Failure
create_channels(id, subpage_id, url) ==
    /\ CanCall
    /\ FreshId(id)
    /\ script' = [script EXCEPT ![id].state = "allocated"]
    /\ layout' = [layout EXCEPT ![id].state = "allocated"]
    /\ render' = [render EXCEPT ![id].state = "allocated"]
    /\ shutdown' = [shutdown EXCEPT ![<<"render", id>>].sender = "held",
                                    ![<<"layout", id>>].sender = "held"]
    /\ sup' = [Frame("create", id) EXCEPT
                  !.pc = "create_spawn_script",
                  !.subpage_id = subpage_id,
                  !.url = url,
                  !.pipeline = new(id, subpage_id, ScriptChan(id),
                                   LayoutChan(id), RenderChan(id),
                                   ShutdownPort("layout", id),
                                   ShutdownPort("render", id), url)]
    /\ log' = <<Allocated>>
    /\ UNCHANGED <<pipelines, sendables, faults, loader>>

\* ScriptTask::create(id, compositor, layout_chan, script_port, script_chan, ..)
create_spawn_script ==
    /\ sup.pc = "create_spawn_script"
    /\ script' = [script EXCEPT ![sup.id].state = "running",
                                ![sup.id].script_chan = ScriptChan(sup.id),
                                ![sup.id].layout_chan = LayoutChan(sup.id)]
    /\ sup' = [sup EXCEPT !.pc = "create_spawn_render"]
    /\ log' = Append(log, Spawned("Script"))
    /\ UNCHANGED <<pipelines, layout, render, shutdown, sendables, faults, loader>>

\* create that hands the render task the layout shutdown sender.
create_spawn_render_crossed ==
    /\ sup.pc = "create_spawn_render"
    /\ render' = [render EXCEPT ![sup.id].state = "running",
                                ![sup.id].shutdown_chan =
                                    ShutdownChan("layout", sup.id)]
    /\ sup' = [sup EXCEPT !.pc = "create_spawn_layout"]
    /\ log' = Append(log, Spawned("Render"))
    /\ UNCHANGED <<pipelines, script, layout, shutdown, sendables, faults, loader>>

\* RenderTask::create(id, render_port, .., render_shutdown_chan)
create_spawn_render ==
    /\ sup.pc = "create_spawn_render"
    /\ render' = [render EXCEPT ![sup.id].state = "running",
                                ![sup.id].shutdown_chan =
                                    ShutdownChan("render", sup.id)]
    /\ sup' = [sup EXCEPT !.pc = "create_spawn_layout"]
    /\ log' = Append(log, Spawned("Render"))
    /\ UNCHANGED <<pipelines, script, layout, shutdown, sendables, faults, loader>>

\* LayoutTask::create(id, layout_port, layout_chan, .., script_chan,
\*                    render_chan, .., layout_shutdown_chan); pipeline
create_spawn_layout ==
    /\ sup.pc = "create_spawn_layout"
    /\ layout' = [layout EXCEPT ![sup.id].state = "running",
                                ![sup.id].layout_chan = LayoutChan(sup.id),
                                ![sup.id].script_chan = ScriptChan(sup.id),
                                ![sup.id].render_chan = RenderChan(sup.id),
                                ![sup.id].shutdown_chan =
                                    ShutdownChan("layout", sup.id)]
    /\ pipelines' = [pipelines EXCEPT ![sup.id] = sup.pipeline]
    /\ sup' = Return(sup, sup.pipeline)
    /\ log' = log \o <<Spawned("Layout"), Returned>>
    /\ UNCHANGED <<script, render, shutdown, sendables, faults, loader>>

create ==
    \/ \E id \in PipelineIds, subpage_id \in OptionSubpageIds, url \in Urls :
            create_channels(id, subpage_id, url)
    \/ create_spawn_script
    \/ create_spawn_render
    \/ create_spawn_layout

\* ---- Pipeline::with_script --------------------------------------------------

\* with_script whose layout shutdown channel() comes after the spawns.
with_script_channels_late(id, subpage_id, script_pipeline, url) ==
    /\ CanCall
    /\ FreshId(id)
    /\ pipelines[script_pipeline] # NoPipeline
    /\ layout' = [layout EXCEPT ![id].state = "allocated"]
    /\ render' = [render EXCEPT ![id].state = "allocated"]
    /\ shutdown' = [shutdown EXCEPT ![<<"render", id>>].sender = "held"]
    /\ sup' = [Frame("with_script", id) EXCEPT
                  !.pc = "with_script_spawn_render",
                  !.subpage_id = Some(subpage_id),
                  !.url = url,
                  !.script_pipeline = script_pipeline]
    /\ log' = <<Allocated>>
    /\ UNCHANGED <<pipelines, script, sendables, faults, loader>>

\* LayoutChan::new(); RenderChan::new(); channel(); channel(); Failure
with_script_channels(id, subpage_id, script_pipeline, url) ==
    /\ CanCall
    /\ FreshId(id)
    /\ pipelines[script_pipeline] # NoPipeline
    /\ layout' = [layout EXCEPT ![id].state = "allocated"]
    /\ render' = [render EXCEPT ![id].state = "allocated"]
    /\ shutdown' = [shutdown EXCEPT ![<<"render", id>>].sender = "held",
                                    ![<<"layout", id>>].sender = "held"]
    /\ sup' = [Frame("with_script", id) EXCEPT
                  !.pc = "with_script_spawn_render",
                  !.subpage_id = Some(subpage_id),
                  !.url = url,
                  !.script_pipeline = script_pipeline]
    /\ log' = <<Allocated>>
    /\ UNCHANGED <<pipelines, script, sendables, faults, loader>>

with_script_spawn_render ==
    /\ sup.pc = "with_script_spawn_render"
    /\ render' = [render EXCEPT ![sup.id].state = "running",
                                ![sup.id].shutdown_chan =
                                    ShutdownChan("render", sup.id)]
    /\ sup' = [sup EXCEPT !.pc = "with_script_spawn_layout"]
    /\ log' = Append(log, Spawned("Render"))
    /\ UNCHANGED <<pipelines, script, layout, shutdown, sendables, faults, loader>>

with_script_spawn_layout ==
    /\ sup.pc = "with_script_spawn_layout"
    /\ layout' = [layout EXCEPT ![sup.id].state = "running",
                                ![sup.id].layout_chan = LayoutChan(sup.id),
                                ![sup.id].script_chan =
                                    pipelines[sup.script_pipeline].script_chan,
                                ![sup.id].render_chan = RenderChan(sup.id),
                                ![sup.id].shutdown_chan =
                                    ShutdownChan("layout", sup.id)]
    /\ sup' = [sup EXCEPT !.pc = "with_script_attach"]
    /\ log' = Append(log, Spawned("Layout"))
    /\ UNCHANGED <<pipelines, script, render, shutdown, sendables, faults, loader>>

\* with_script that sends the attach message twice.
with_script_attach_twice ==
    /\ sup.pc = "with_script_attach"
    /\ LET script_pipeline == pipelines[sup.script_pipeline]
           chan == script_pipeline.script_chan
           msg == AttachLayoutMsg(NewLayoutInfo(script_pipeline.id, sup.id,
                                                sup.subpage_id[1],
                                                LayoutChan(sup.id)))
           pipeline == new(sup.id, sup.subpage_id, chan, LayoutChan(sup.id),
                           RenderChan(sup.id), ShutdownPort("layout", sup.id),
                           ShutdownPort("render", sup.id), sup.url)
       IN IF ReceiverAlive(script[ChanId(chan)])
          THEN /\ script' = Enqueue(Enqueue(script, ChanId(chan), msg),
                                    ChanId(chan), msg)
               /\ pipelines' = [pipelines EXCEPT ![sup.id] = pipeline]
               /\ sup' = Return(sup, pipeline)
               /\ log' = log \o <<Sent(chan, msg, TRUE), Sent(chan, msg, TRUE),
                                  Returned>>
          ELSE /\ sup' = Fail(sup)
               /\ log' = Append(log, Sent(chan, msg, FALSE))
               /\ UNCHANGED <<pipelines, script>>
    /\ UNCHANGED <<layout, render, shutdown, sendables, faults, loader>>

\* with_script whose attach message carries the parent's layout_chan.
with_script_attach_parent_layout ==
    /\ sup.pc = "with_script_attach"
    /\ LET script_pipeline == pipelines[sup.script_pipeline]
           chan == script_pipeline.script_chan
           msg == AttachLayoutMsg(NewLayoutInfo(script_pipeline.id, sup.id,
                                                sup.subpage_id[1],
                                                script_pipeline.layout_chan))
           pipeline == new(sup.id, sup.subpage_id, chan, LayoutChan(sup.id),
                           RenderChan(sup.id), ShutdownPort("layout", sup.id),
                           ShutdownPort("render", sup.id), sup.url)
       IN IF ReceiverAlive(script[ChanId(chan)])
          THEN /\ script' = Enqueue(script, ChanId(chan), msg)
               /\ pipelines' = [pipelines EXCEPT ![sup.id] = pipeline]
               /\ sup' = Return(sup, pipeline)
               /\ log' = log \o <<Sent(chan, msg, TRUE), Returned>>
          ELSE /\ sup' = Fail(sup)
               /\ log' = Append(log, Sent(chan, msg, FALSE))
               /\ UNCHANGED <<pipelines, script>>
    /\ UNCHANGED <<layout, render, shutdown, sendables, faults, loader>>

\* with_script that returns the Pipeline without sending the attach message.
with_script_attach_no_send ==
    /\ sup.pc = "with_script_attach"
    /\ LET script_pipeline == pipelines[sup.script_pipeline]
           chan == script_pipeline.script_chan
           pipeline == new(sup.id, sup.subpage_id, chan, LayoutChan(sup.id),
                           RenderChan(sup.id), ShutdownPort("layout", sup.id),
                           ShutdownPort("render", sup.id), sup.url)
       IN /\ pipelines' = [pipelines EXCEPT ![sup.id] = pipeline]
          /\ sup' = Return(sup, pipeline)
          /\ log' = Append(log, Returned)
    /\ UNCHANGED <<script, layout, render, shutdown, sendables, faults, loader>>

\* chan.send(AttachLayoutMsg(new_layout_info)); Pipeline::new(..)
with_script_attach ==
    /\ sup.pc = "with_script_attach"
    /\ LET script_pipeline == pipelines[sup.script_pipeline]
           chan == script_pipeline.script_chan
           msg == AttachLayoutMsg(NewLayoutInfo(script_pipeline.id, sup.id,
                                                sup.subpage_id[1],
                                                LayoutChan(sup.id)))
           pipeline == new(sup.id, sup.subpage_id, chan, LayoutChan(sup.id),
                           RenderChan(sup.id), ShutdownPort("layout", sup.id),
                           ShutdownPort("render", sup.id), sup.url)
       IN IF ReceiverAlive(script[ChanId(chan)])
          THEN /\ script' = Enqueue(script, ChanId(chan), msg)
               /\ pipelines' = [pipelines EXCEPT ![sup.id] = pipeline]
               /\ sup' = Return(sup, pipeline)
               /\ log' = log \o <<Sent(chan, msg, TRUE), Returned>>
          ELSE /\ sup' = Fail(sup)
               /\ log' = Append(log, Sent(chan, msg, FALSE))
               /\ UNCHANGED <<pipelines, script>>
    /\ UNCHANGED <<layout, render, shutdown, sendables, faults, loader>>

with_script ==
    \/ \E id \in PipelineIds, subpage_id \in SubpageIds,
          script_pipeline \in PipelineIds, url \in Urls :
            with_script_channels(id, subpage_id, script_pipeline, url)
    \/ with_script_spawn_render
    \/ with_script_spawn_layout
    \/ with_script_attach

\* ---- Pipeline::load ---------------------------------------------------------

\* load that sends its message twice.
load_twice(id) ==
    /\ CanCall
    /\ pipelines[id] # NoPipeline
    /\ LET self == pipelines[id]
           chan == self.script_chan
           msg == LoadMsg(self.id, self.url)
       IN IF ReceiverAlive(script[ChanId(chan)])
          THEN /\ script' = Enqueue(Enqueue(script, ChanId(chan), msg),
                                    ChanId(chan), msg)
               /\ sup' = Return(Frame("load", id), "unit")
               /\ log' = <<Sent(chan, msg, TRUE), Sent(chan, msg, TRUE),
                           Returned>>
          ELSE /\ sup' = Fail(Frame("load", id))
               /\ log' = <<Sent(chan, msg, FALSE)>>
               /\ UNCHANGED script
    /\ UNCHANGED <<pipelines, layout, render, shutdown, sendables, faults, loader>>

\* chan.send(LoadMsg(self.id, self.url.clone())): send fails the caller when
\* the script task's port is gone.
load(id) ==
    /\ CanCall
    /\ pipelines[id] # NoPipeline
    /\ LET self == pipelines[id]
           chan == self.script_chan
           msg == LoadMsg(self.id, self.url)
       IN IF ReceiverAlive(script[ChanId(chan)])
          THEN /\ script' = Enqueue(script, ChanId(chan), msg)
               /\ sup' = Return(Frame("load", id), "unit")
               /\ log' = <<Sent(chan, msg, TRUE), Returned>>
          ELSE /\ sup' = Fail(Frame("load", id))
               /\ log' = <<Sent(chan, msg, FALSE)>>
               /\ UNCHANGED script
    /\ UNCHANGED <<pipelines, layout, render, shutdown, sendables, faults, loader>>

\* ---- Pipeline::grant_paint_permission / revoke_paint_permission -------------

\* The paint messages sent with send in place of try_send.
paint_send(op, id, msg) ==
    /\ CanCall
    /\ pipelines[id] # NoPipeline
    /\ LET self == pipelines[id]
           chan == self.render_chan
       IN IF ReceiverAlive(render[ChanId(chan)])
          THEN /\ render' = Enqueue(render, ChanId(chan), msg)
               /\ sup' = Return(Frame(op, id), "unit")
               /\ log' = <<Sent(chan, msg, TRUE), Returned>>
          ELSE /\ sup' = Fail(Frame(op, id))
               /\ log' = <<Sent(chan, msg, FALSE)>>
               /\ UNCHANGED render
    /\ UNCHANGED <<pipelines, script, layout, shutdown, sendables, faults, loader>>

\* self.render_chan.chan.try_send(msg): the result is dropped.
paint_try_send(op, id, msg) ==
    /\ CanCall
    /\ pipelines[id] # NoPipeline
    /\ LET self == pipelines[id]
           chan == self.render_chan
           ok == ReceiverAlive(render[ChanId(chan)])
       IN /\ render' = IF ok THEN Enqueue(render, ChanId(chan), msg) ELSE render
          /\ log' = <<Sent(chan, msg, ok), Returned>>
    /\ sup' = Return(Frame(op, id), "unit")
    /\ UNCHANGED <<pipelines, script, layout, shutdown, sendables, faults, loader>>

grant_paint_permission(id) ==
    paint_try_send("grant_paint_permission", id, PaintPermissionGranted)

revoke_paint_permission(id) ==
    paint_try_send("revoke_paint_permission", id, PaintPermissionRevoked)

\* ---- Pipeline::exit ---------------------------------------------------------

\* Receiver::recv_opt on a shutdown port: Some(()) when a () is buffered, None
\* when the channel is empty and its sender dropped, and otherwise it blocks.
PortKey(port) == <<port[2], port[3]>>
\* recv_opt that takes a closed channel for one still open: it waits on.
recv_opt_ready_signal_only(port) == shutdown[PortKey(port)].buffered > 0

recv_opt_ready(port) ==
    \/ shutdown[PortKey(port)].buffered > 0
    \/ shutdown[PortKey(port)].sender = "dropped"
recv_opt_result(port) ==
    IF shutdown[PortKey(port)].buffered > 0 THEN "Some" ELSE "None"
recv_opt_take(port) ==
    IF shutdown[PortKey(port)].buffered > 0
    THEN [shutdown EXCEPT ![PortKey(port)].buffered = @ - 1]
    ELSE shutdown

\* exit with the result of try_send ignored: it always goes on to wait.
exit_try_send_unconditional(id) ==
    /\ CanCall
    /\ pipelines[id] # NoPipeline
    /\ LET self == pipelines[id]
           chan == self.script_chan
           msg == ExitPipelineMsg(self.id)
           ok == ReceiverAlive(script[ChanId(chan)])
       IN /\ script' = IF ok THEN Enqueue(script, ChanId(chan), msg) ELSE script
          /\ log' = <<Sent(chan, msg, ok)>>
    /\ sup' = [Frame("exit", id) EXCEPT !.pc = "exit_recv_render"]
    /\ UNCHANGED <<pipelines, layout, render, shutdown, sendables, faults, loader>>

\* exit that waits for layout only.
exit_try_send_skip_render(id) ==
    /\ CanCall
    /\ pipelines[id] # NoPipeline
    /\ LET self == pipelines[id]
           chan == self.script_chan
           msg == ExitPipelineMsg(self.id)
       IN IF ReceiverAlive(script[ChanId(chan)])
          THEN /\ script' = Enqueue(script, ChanId(chan), msg)
               /\ sup' = [Frame("exit", id) EXCEPT !.pc = "exit_recv_layout"]
               /\ log' = <<Sent(chan, msg, TRUE)>>
          ELSE /\ sup' = Return(Frame("exit", id), "unit")
               /\ log' = <<Sent(chan, msg, FALSE), Returned>>
               /\ UNCHANGED script
    /\ UNCHANGED <<pipelines, layout, render, shutdown, sendables, faults, loader>>

\* exit that, when the script task is gone, asks the layout task to exit itself.
exit_try_send_signal_layout(id) ==
    /\ CanCall
    /\ pipelines[id] # NoPipeline
    /\ LET self == pipelines[id]
           chan == self.script_chan
           msg == ExitPipelineMsg(self.id)
           l == ChanId(self.layout_chan)
       IN IF ReceiverAlive(script[ChanId(chan)])
          THEN /\ script' = Enqueue(script, ChanId(chan), msg)
               /\ sup' = [Frame("exit", id) EXCEPT !.pc = "exit_recv_render"]
               /\ log' = <<Sent(chan, msg, TRUE)>>
               /\ UNCHANGED layout
          ELSE /\ layout' = IF ReceiverAlive(layout[l])
                            THEN Enqueue(layout, l, ExitNowMsg)
                            ELSE layout
               /\ sup' = Return(Frame("exit", id), "unit")
               /\ log' = <<Sent(chan, msg, FALSE),
                           Sent(self.layout_chan, ExitNowMsg,
                                ReceiverAlive(layout[l])), Returned>>
               /\ UNCHANGED script
    /\ UNCHANGED <<pipelines, render, shutdown, sendables, faults, loader>>

\* if chan.try_send(script_task::ExitPipelineMsg(self.id)) { .. }
exit_try_send(id) ==
    /\ CanCall
    /\ pipelines[id] # NoPipeline
    /\ LET self == pipelines[id]
           chan == self.script_chan
           msg == ExitPipelineMsg(self.id)
       IN IF ReceiverAlive(script[ChanId(chan)])
          THEN /\ script' = Enqueue(script, ChanId(chan), msg)
               /\ sup' = [Frame("exit", id) EXCEPT !.pc = "exit_recv_render"]
               /\ log' = <<Sent(chan, msg, TRUE)>>
          ELSE /\ sup' = Return(Frame("exit", id), "unit")
               /\ log' = <<Sent(chan, msg, FALSE), Returned>>
               /\ UNCHANGED script
    /\ UNCHANGED <<pipelines, layout, render, shutdown, sendables, faults, loader>>

\* exit with recv() in place of recv_opt(): a closed channel fails the caller.
exit_recv_render_recv ==
    /\ sup.pc = "exit_recv_render"
    /\ LET port == pipelines[sup.id].render_shutdown_port
       IN /\ recv_opt_ready(port)
          /\ shutdown' = recv_opt_take(port)
          /\ log' = Append(log, Received(port, recv_opt_result(port)))
          /\ sup' = IF recv_opt_result(port) = "None"
                    THEN Fail(sup)
                    ELSE [sup EXCEPT !.pc = "exit_recv_layout"]
    /\ UNCHANGED <<pipelines, script, layout, render, sendables, faults, loader>>

\* exit whose render read gives up after a timeout: it goes on, ready or not.
exit_recv_render_timeout ==
    /\ sup.pc = "exit_recv_render"
    /\ LET port == pipelines[sup.id].render_shutdown_port
       IN /\ shutdown' = recv_opt_take(port)
          /\ log' = Append(log, Received(port, recv_opt_result(port)))
    /\ sup' = [sup EXCEPT !.pc = "exit_recv_layout"]
    /\ UNCHANGED <<pipelines, script, layout, render, sendables, faults, loader>>

\* self.render_shutdown_port.recv_opt();
exit_recv_render ==
    /\ sup.pc = "exit_recv_render"
    /\ LET port == pipelines[sup.id].render_shutdown_port
       IN /\ recv_opt_ready(port)
          /\ shutdown' = recv_opt_take(port)
          /\ log' = Append(log, Received(port, recv_opt_result(port)))
    /\ sup' = [sup EXCEPT !.pc = "exit_recv_layout"]
    /\ UNCHANGED <<pipelines, script, layout, render, sendables, faults, loader>>

\* exit whose second read is of the render port again.
exit_recv_layout_render_again ==
    /\ sup.pc = "exit_recv_layout"
    /\ LET port == pipelines[sup.id].render_shutdown_port
       IN /\ recv_opt_ready(port)
          /\ shutdown' = recv_opt_take(port)
          /\ log' = log \o <<Received(port, recv_opt_result(port)), Returned>>
    /\ sup' = Return(sup, "unit")
    /\ UNCHANGED <<pipelines, script, layout, render, sendables, faults, loader>>

\* exit whose layout read is try_recv(): it returns at once, ready or not.
exit_recv_layout_try_recv ==
    /\ sup.pc = "exit_recv_layout"
    /\ LET port == pipelines[sup.id].layout_shutdown_port
       IN /\ shutdown' = recv_opt_take(port)
          /\ log' = log \o <<Received(port, recv_opt_result(port)), Returned>>
    /\ sup' = Return(sup, "unit")
    /\ UNCHANGED <<pipelines, script, layout, render, sendables, faults, loader>>

\* self.layout_shutdown_port.recv_opt(); and the end of exit
exit_recv_layout ==
    /\ sup.pc = "exit_recv_layout"
    /\ LET port == pipelines[sup.id].layout_shutdown_port
       IN /\ recv_opt_ready(port)
          /\ shutdown' = recv_opt_take(port)
          /\ log' = log \o <<Received(port, recv_opt_result(port)), Returned>>
    /\ sup' = Return(sup, "unit")
    /\ UNCHANGED <<pipelines, script, layout, render, sendables, faults, loader>>

exit ==
    \/ \E id \in PipelineIds : exit_try_send(id)
    \/ exit_recv_render
    \/ exit_recv_layout

\* ---- Pipeline::to_sendable --------------------------------------------------

CompositionPipeline(id, script_chan, render_chan) ==
    [id |-> id, script_chan |-> script_chan, render_chan |-> render_chan]

\* to_sendable that clones layout_chan into the render_chan field.
to_sendable_layout(id) ==
    /\ CanCall
    /\ pipelines[id] # NoPipeline
    /\ LET self == pipelines[id]
           ret == CompositionPipeline(self.id, self.script_chan,
                                      self.layout_chan)
       IN /\ sup' = Return(Frame("to_sendable", id), ret)
          /\ sendables' = [sendables EXCEPT ![id] = @ \cup {ret}]
    /\ log' = <<Returned>>
    /\ UNCHANGED <<pipelines, script, layout, render, shutdown, faults, loader>>

to_sendable(id) ==
    /\ CanCall
    /\ pipelines[id] # NoPipeline
    /\ LET self == pipelines[id]
           ret == CompositionPipeline(self.id, self.script_chan,
                                      self.render_chan)
       IN /\ sup' = Return(Frame("to_sendable", id), ret)
          /\ sendables' = [sendables EXCEPT ![id] = @ \cup {ret}]
    /\ log' = <<Returned>>
    /\ UNCHANGED <<pipelines, script, layout, render, shutdown, faults, loader>>

\* ---- the spawned tasks -------------------------------------------------------

\* A task signals the shutdown sender it was handed and drops it.
ShutdownKey(chan) == <<chan[2], chan[3]>>
Signal(chan) ==
    [shutdown EXCEPT ![ShutdownKey(chan)].buffered = @ + 1,
                     ![ShutdownKey(chan)].sender = "dropped"]
Drop(chan) == [shutdown EXCEPT ![ShutdownKey(chan)].sender = "dropped"]

Dead(task) == [task EXCEPT !.state = "dead", !.queue = <<>>]

\* The layout channels a script task forwards ExitPipelineMsg(id) to: its own
\* page's layout and those attached to it when id is its own pipeline,
\* otherwise the layout attached for id.
ExitTargets(c, id) ==
    IF id = c
    THEN {script[c].layout_chan} \cup {a[2] : a \in script[c].attached}
    ELSE {a[2] : a \in {b \in script[c].attached : b[1] = id}}

ScriptTask_handle(c) ==
    /\ script[c].state = "running"
    /\ script[c].queue # <<>>
    /\ LET msg == Head(script[c].queue)
           rest == [script[c] EXCEPT !.queue = Tail(@)]
       IN CASE msg.type = "AttachLayoutMsg" ->
                 /\ script' = [script EXCEPT ![c] =
                        [rest EXCEPT !.attached = @ \cup
                            {<<msg.info.new_pipeline_id, msg.info.layout_chan>>}]]
                 /\ UNCHANGED layout
            [] msg.type = "LoadMsg" ->
                 /\ script' = [script EXCEPT ![c] = rest]
                 /\ UNCHANGED layout
            [] msg.type = "ExitPipelineMsg" ->
                 /\ layout' = [p \in PipelineIds |->
                        IF LayoutChan(p) \in ExitTargets(c, msg.id)
                           /\ ReceiverAlive(layout[p])
                        THEN [layout[p] EXCEPT !.queue = Append(@, ExitNowMsg)]
                        ELSE layout[p]]
                 /\ script' = [script EXCEPT ![c] =
                        IF msg.id = c THEN Dead(rest) ELSE rest]
    /\ UNCHANGED <<pipelines, render, shutdown, sup, log, sendables, faults, loader>>

ScriptTask_fail(c) ==
    /\ script[c].state = "running"
    /\ faults < MaxFaults
    /\ faults' = faults + 1
    /\ script' = [script EXCEPT ![c] = Dead(@)]
    /\ UNCHANGED <<pipelines, layout, render, shutdown, sup, log, sendables, loader>>

\* ExitNowMsg: layout tells its render task to exit ...
LayoutTask_handle(p) ==
    /\ layout[p].state = "running"
    /\ layout[p].queue # <<>>
    /\ Head(layout[p].queue) = ExitNowMsg
    /\ LET r == ChanId(layout[p].render_chan)
       IN render' = IF ReceiverAlive(render[r])
                    THEN Enqueue(render, r, ExitMsg)
                    ELSE render
    /\ layout' = [layout EXCEPT ![p].state = "exiting", ![p].queue = Tail(@)]
    /\ UNCHANGED <<pipelines, script, shutdown, sup, log, sendables, faults, loader>>

\* ... and then ends, signalling the shutdown sender it was handed.
LayoutTask_exit(p) ==
    /\ layout[p].state = "exiting"
    /\ shutdown' = Signal(layout[p].shutdown_chan)
    /\ layout' = [layout EXCEPT ![p] = Dead(@)]
    /\ UNCHANGED <<pipelines, script, render, sup, log, sendables, faults, loader>>

LayoutTask_fail(p) ==
    /\ layout[p].state \in {"running", "exiting", "hung"}
    /\ faults < MaxFaults
    /\ faults' = faults + 1
    /\ shutdown' = Drop(layout[p].shutdown_chan)
    /\ layout' = [layout EXCEPT ![p] = Dead(@)]
    /\ UNCHANGED <<pipelines, script, render, sup, log, sendables, loader>>

LayoutTask_hang(p) ==
    /\ layout[p].state \in {"running", "exiting"}
    /\ faults < MaxFaults
    /\ faults' = faults + 1
    /\ layout' = [layout EXCEPT ![p].state = "hung"]
    /\ UNCHANGED <<pipelines, script, render, shutdown, sup, log, sendables, loader>>

RenderTask_handle(p) ==
    /\ render[p].state = "running"
    /\ render[p].queue # <<>>
    /\ LET msg == Head(render[p].queue)
           rest == [render[p] EXCEPT !.queue = Tail(@)]
       IN CASE msg \in {PaintPermissionGranted, PaintPermissionRevoked} ->
                 /\ render' = [render EXCEPT ![p] = rest]
                 /\ UNCHANGED shutdown
            [] msg = ExitMsg ->
                 /\ render' = [render EXCEPT ![p] = Dead(rest)]
                 /\ shutdown' = Signal(render[p].shutdown_chan)
    /\ UNCHANGED <<pipelines, script, layout, sup, log, sendables, faults, loader>>

RenderTask_fail(p) ==
    /\ render[p].state \in {"running", "hung"}
    /\ faults < MaxFaults
    /\ faults' = faults + 1
    /\ shutdown' = Drop(render[p].shutdown_chan)
    /\ render' = [render EXCEPT ![p] = Dead(@)]
    /\ UNCHANGED <<pipelines, script, layout, sup, log, sendables, loader>>

RenderTask_hang(p) ==
    /\ render[p].state = "running"
    /\ faults < MaxFaults
    /\ faults' = faults + 1
    /\ render' = [render EXCEPT ![p].state = "hung"]
    /\ UNCHANGED <<pipelines, script, layout, shutdown, sup, log, sendables, loader>>

\* ---- the system -------------------------------------------------------------

Tasks ==
    \/ \E c \in PipelineIds : ScriptTask_handle(c)
    \/ \E c \in PipelineIds : ScriptTask_fail(c)
    \/ \E p \in PipelineIds : LayoutTask_handle(p)
    \/ \E p \in PipelineIds : LayoutTask_exit(p)
    \/ \E p \in PipelineIds : LayoutTask_fail(p)
    \/ \E p \in PipelineIds : LayoutTask_hang(p)
    \/ \E p \in PipelineIds : RenderTask_handle(p)
    \/ \E p \in PipelineIds : RenderTask_fail(p)
    \/ \E p \in PipelineIds : RenderTask_hang(p)

Next ==
    \/ create
    \/ with_script
    \/ \E id \in PipelineIds : load(id)
    \/ \E id \in PipelineIds : grant_paint_permission(id)
    \/ \E id \in PipelineIds : revoke_paint_permission(id)
    \/ exit
    \/ \E id \in PipelineIds : to_sendable(id)
    \/ Tasks

Spec == Init /\ [][Next]_vars

\* ---- what a call did ---------------------------------------------------------

\* The step starts a call of op.
CallStep(op) == sup'.calls = sup.calls + 1 /\ sup'.op = op

\* The positions in the log of the supervisor's reads of shutdown ports.
Reads == {i \in 1..Len(log) : log[i].ev = "recv_opt"}
Sends == {i \in 1..Len(log) : log[i].ev = "send"}

\* The port is the receiver of the channel whose sender the layout (render)
\* task of pipeline p was handed.
IsLayoutPort(port, p) ==
    /\ layout[p].shutdown_chan # NoChan
    /\ PortKey(port) = ShutdownKey(layout[p].shutdown_chan)
IsRenderPort(port, p) ==
    /\ render[p].shutdown_chan # NoChan
    /\ PortKey(port) = ShutdownKey(render[p].shutdown_chan)

IsSpawn(e) == e.ev = "spawn"
\* The kinds of task the current call has spawned, in order.
SpawnSeq ==
    LET spawns == SelectSeq(log, IsSpawn)
    IN [i \in 1..Len(spawns) |-> spawns[i].what]

IsPrefix(s, t) ==
    /\ Len(s) <= Len(t)
    /\ \A i \in 1..Len(s) : s[i] = t[i]

ExitAccepted == sup.op = "exit" /\ log[1].ok
ExitRejected == sup.op = "exit" /\ ~log[1].ok
Returned_(op) == sup.op = op /\ sup.pc = "idle"

\* ---- C1 ---------------------------------------------------------------------

\* C1: a call of exit() on a pipeline whose script task's port is gone returns
\* in its first step, reads no shutdown port and leaves both shutdown channels
\* as they were, whatever the layout and render tasks are doing.
C1_Step ==
    (CallStep("exit")
        /\ ~ReceiverAlive(script[ChanId(pipelines[sup'.id].script_chan)]))
    => /\ sup'.pc = "idle"
       /\ shutdown' = shutdown
       /\ \A i \in 1..Len(log') : log'[i].ev # "recv_opt"
C1_DeadScriptExitReturns == [][C1_Step]_vars

\* exit() has returned on the rejected path while layout and render still run.
C1_Witness ==
    /\ ExitRejected
    /\ sup.pc = "idle"
    /\ Reads = {}
    /\ layout[sup.id].state = "running"
    /\ render[sup.id].state = "running"

\* ---- C2 ---------------------------------------------------------------------

\* C2 as claimed: every read of the render shutdown port in exit() comes
\* after a read of the layout shutdown port.
C2_LayoutReadFirst ==
    sup.op = "exit" =>
        \A i \in Reads :
            IsRenderPort(log[i].port, sup.id) =>
                \E j \in Reads : j < i /\ IsLayoutPort(log[j].port, sup.id)

\* C2 amended: when the script task accepts the exit message, exit() reads
\* the render shutdown port strictly before the layout shutdown port: every
\* read of the layout port comes after a read of the render port, and a
\* returned accepted exit() has read both.
C2_RenderReadFirst ==
    sup.op = "exit" =>
        /\ \A i \in Reads :
              IsLayoutPort(log[i].port, sup.id) =>
                  \E j \in Reads : j < i /\ IsRenderPort(log[j].port, sup.id)
        /\ (ExitAccepted /\ sup.pc = "idle") =>
              /\ \E j \in Reads : IsRenderPort(log[j].port, sup.id)
              /\ \E i \in Reads : IsLayoutPort(log[i].port, sup.id)

\* An accepted exit() has returned after both reads.
C2_Witness ==
    /\ ExitAccepted
    /\ sup.pc = "idle"
    /\ Cardinality(Reads) = 2

\* ---- C3 ---------------------------------------------------------------------

\* C3: in exit(), a read of a shutdown port whose channel is closed is not
\* blocked and, like a read that finds the signal, only moves exit() on: from
\* the render read to the layout read, from the layout read to a normal return.
C3_NotBlocked ==
    /\ (sup.pc = "exit_recv_render"
            /\ shutdown[PortKey(pipelines[sup.id].render_shutdown_port)].sender
                   = "dropped")
        => ENABLED exit_recv_render
    /\ (sup.pc = "exit_recv_layout"
            /\ shutdown[PortKey(pipelines[sup.id].layout_shutdown_port)].sender
                   = "dropped")
        => ENABLED exit_recv_layout
C3_Step ==
    /\ (sup.pc = "exit_recv_render" /\ sup' # sup)
        => /\ sup'.pc = "exit_recv_layout"
           /\ log'[Len(log')].result \in {"Some", "None"}
    /\ (sup.pc = "exit_recv_layout" /\ sup' # sup)
        => /\ sup'.pc = "idle"
           /\ sup'.ret = "unit"
C3_ClosedIsShutdown == []C3_NotBlocked /\ [][C3_Step]_vars

\* The results of the render read and of the layout read of a returned exit().
ExitResults ==
    IF ExitAccepted /\ sup.pc = "idle" /\ Len(log) = 4
    THEN <<log[2].result, log[3].result>>
    ELSE <<>>
\* exit() has returned after finding both channels closed.
C3_Witness == ExitResults = <<"None", "None">>
\* The other three combinations.
C3_SignalSignal == ExitResults = <<"Some", "Some">>
C3_SignalClosed == ExitResults = <<"Some", "None">>
C3_ClosedSignal == ExitResults = <<"None", "Some">>

\* ---- C4 ---------------------------------------------------------------------

PaintOps == {"grant_paint_permission", "revoke_paint_permission"}

\* C4: grant_paint_permission() and revoke_paint_permission() can always be
\* run to their end by an idle supervisor, return normally in that one step
\* whatever the render task's state, and change nothing when its port is gone.
C4_NeverBlocks ==
    \A id \in PipelineIds :
        (CanCall /\ pipelines[id] # NoPipeline) =>
            /\ ENABLED grant_paint_permission(id)
            /\ ENABLED revoke_paint_permission(id)
C4_Step ==
    \A op \in PaintOps :
        CallStep(op) =>
            /\ sup'.pc = "idle"
            /\ sup'.ret = "unit"
            /\ ~ReceiverAlive(render[ChanId(pipelines[sup'.id].render_chan)])
                => UNCHANGED <<pipelines, script, layout, render, shutdown>>
C4_PaintBestEffort == []C4_NeverBlocks /\ [][C4_Step]_vars

\* A paint call has returned with the render task hung on a non-empty queue.
C4_Witness ==
    /\ sup.op \in PaintOps
    /\ sup.pc = "idle"
    /\ render[sup.id].state = "hung"
    /\ Len(render[sup.id].queue) >= 2
\* A paint call has returned with the render task dead.
C4_WitnessDead ==
    /\ sup.op \in PaintOps
    /\ sup.pc = "idle"
    /\ render[sup.id].state = "dead"
    /\ ~log[1].ok

\* ---- C5 ---------------------------------------------------------------------

\* C5: load() on a pipeline whose script task is dead does not fail the
\* supervisor: every load() returns.
C5_LoadNeverFails == sup.op = "load" => sup.pc = "idle"

\* ---- C6 ---------------------------------------------------------------------

\* C6 as claimed: create spawns Render, then Layout, then Script, and
\* with_script spawns Render, then Layout.
C6_RenderLayoutScript ==
    /\ Returned_("create") => SpawnSeq = <<"Render", "Layout", "Script">>
    /\ Returned_("with_script") => SpawnSeq = <<"Render", "Layout">>

\* C6 amended: create spawns Script, then Render, then Layout; with_script
\* spawns Render, then Layout, and no Script.
C6_ScriptRenderLayout ==
    /\ sup.op = "create" =>
          /\ IsPrefix(SpawnSeq, <<"Script", "Render", "Layout">>)
          /\ sup.pc = "idle" => SpawnSeq = <<"Script", "Render", "Layout">>
    /\ sup.op = "with_script" =>
          /\ IsPrefix(SpawnSeq, <<"Render", "Layout">>)
          /\ sup.pc = "idle" => SpawnSeq = <<"Render", "Layout">>

\* create has returned.
C6_Witness == Returned_("create") /\ Len(SpawnSeq) = 3
\* with_script has returned.
C6_WitnessWithScript == Returned_("with_script") /\ Len(SpawnSeq) = 2

\* ---- C7 ---------------------------------------------------------------------

SpawnCount(what) ==
    Cardinality({i \in 1..Len(log) : log[i] = Spawned(what)})

\* C7: a returned create has spawned one Script, one Layout and one Render
\* task and returns the Pipeline the supervisor now holds, whose id,
\* subpage_id and url are the arguments of the call and whose script_chan,
\* layout_chan and render_chan are the channels of the three tasks spawned.
C7_CreateReturnsPipeline ==
    Returned_("create") =>
        /\ \A what \in {"Script", "Layout", "Render"} : SpawnCount(what) = 1
        /\ sup.ret = pipelines[sup.id]
        /\ sup.ret.id = sup.id
        /\ sup.ret.subpage_id = sup.subpage_id
        /\ sup.ret.url = sup.url
        /\ \A t \in {script[sup.id], layout[sup.id], render[sup.id]} :
              t.state \in {"running", "exiting", "hung", "dead"}
        /\ sup.ret.script_chan = ScriptChan(sup.id)
        /\ sup.ret.script_chan = script[sup.id].script_chan
        /\ sup.ret.layout_chan = LayoutChan(sup.id)
        /\ sup.ret.layout_chan = layout[sup.id].layout_chan
        /\ sup.ret.render_chan = RenderChan(sup.id)
        /\ sup.ret.render_chan = layout[sup.id].render_chan

\* create has returned a Pipeline with a subpage id.
C7_Witness ==
    /\ Returned_("create")
    /\ sup.ret.subpage_id # None
    /\ sup.ret.url \in Urls

\* ---- C8 ---------------------------------------------------------------------

\* The attach-layout messages for pipeline id that script task c holds or has
\* handled.
AttachesSeen(c, id) ==
    Cardinality({i \in 1..Len(script[c].queue) :
                    /\ script[c].queue[i].type = "AttachLayoutMsg"
                    /\ script[c].queue[i].info.new_pipeline_id = id})
    + Cardinality({a \in script[c].attached : a[1] = id})

C8_WitnessHandled ==
    /\ Returned_("with_script")
    /\ script[ChanId(sup.ret.script_chan)].state = "running"
    /\ script[ChanId(sup.ret.script_chan)].attached # {}

\* ---- C9 ---------------------------------------------------------------------

\* C9: to_sendable() sends nothing, reads nothing and changes no Pipeline,
\* task or channel, and every value it has returned for a Pipeline has that
\* Pipeline's id, script_chan and render_chan (so any two calls agree), also
\* after exit().
C9_Same ==
    \A p \in PipelineIds :
        \A v \in sendables[p] :
            /\ v.id = pipelines[p].id
            /\ v.script_chan = pipelines[p].script_chan
            /\ v.render_chan = pipelines[p].render_chan
C9_Step ==
    CallStep("to_sendable") =>
        /\ UNCHANGED <<pipelines, script, layout, render, shutdown>>
        /\ sup'.pc = "idle"
        /\ sup'.ret \in sendables'[sup'.id]
        /\ \A i \in 1..Len(log') : log'[i].ev \notin {"send", "recv_opt"}
C9_ToSendablePure == []C9_Same /\ [][C9_Step]_vars

\* to_sendable() has returned on a Pipeline whose exit() was accepted and has
\* returned: no task failed, so its script task died of the exit message.
C9_Witness ==
    /\ Returned_("to_sendable")
    /\ faults = 0
    /\ script[ChanId(pipelines[sup.id].script_chan)].state = "dead"
    /\ sendables[sup.id] # {}
\* to_sendable() has returned twice on one Pipeline.
C9_WitnessTwice ==
    /\ Returned_("to_sendable")
    /\ sup.calls = 3
    /\ pipelines[2] = NoPipeline
    /\ script[1].queue = <<>>
    /\ render[1].queue = <<>>

\* ---- C10 --------------------------------------------------------------------

\* The supervisor is inside a call that cannot take its next step.
Blocked ==
    /\ sup.pc \notin {"idle", "failed"}
    /\ ~ENABLED (create \/ with_script \/ exit)

\* C10: only exit() blocks the supervisor or reads a shutdown port: a call of
\* another operation has read none, and a call of exit() has read each of the
\* Pipeline's two ports at most once and no other port.
C10_OnlyExitBlocksAndReads ==
    /\ Blocked => sup.op = "exit"
    /\ sup.op \in {"load", "to_sendable"} \cup PaintOps =>
          /\ Reads = {}
          /\ sup.pc \in {"idle", "failed"}
    /\ sup.op \in {"create", "with_script"} => Reads = {}
    /\ sup.op = "exit" =>
          /\ \A i \in Reads :
                log[i].port \in {pipelines[sup.id].layout_shutdown_port,
                                 pipelines[sup.id].render_shutdown_port}
          /\ \A i, j \in Reads : log[i].port = log[j].port => i = j

\* exit() is blocked on the render shutdown port.
C10_Witness ==
    /\ sup.pc = "exit_recv_render"
    /\ Blocked
\* exit() is blocked on the layout shutdown port, the render port read.
C10_WitnessLayout ==
    /\ sup.pc = "exit_recv_layout"
    /\ Blocked
    /\ Cardinality(Reads) = 1

\* ---- C11 --------------------------------------------------------------------

\* The task a component sender addresses.
TaskOf(chan) ==
    CASE chan[1] = "ScriptChan" -> script[chan[2]]
      [] chan[1] = "LayoutChan" -> layout[chan[2]]
      [] chan[1] = "RenderChan" -> render[chan[2]]
\* The component senders a task was handed when it was spawned.
Handed(task) ==
    {task.script_chan, task.layout_chan, task.render_chan} \ {NoChan}
IsSpawned(task) == task.state \in {"running", "exiting", "hung", "dead"}
IsAllocated(task) == task.state # "unallocated"
TasksOf(p) == {script[p], layout[p], render[p]}

\* Once a task of pipeline p is spawned, its layout and render channels and
\* both shutdown channels exist, and its script channel if it has its own.
ChannelsBeforeSpawns ==
    \A p \in PipelineIds :
        (\E t \in TasksOf(p) : IsSpawned(t)) =>
            /\ IsAllocated(layout[p])
            /\ IsAllocated(render[p])
            /\ \A k \in ShutdownKinds : shutdown[<<k, p>>].sender # "unallocated"
            /\ IsSpawned(script[p]) => IsAllocated(script[p])
            /\ sup.op \in {"create", "with_script"} /\ sup.id = p =>
                  log[1] = Allocated

\* C11 as claimed: channels are allocated before the first spawn, and no
\* spawned task holds a sender to a task that is not spawned yet.
C11_NoSenderToUnspawned ==
    /\ ChannelsBeforeSpawns
    /\ \A p \in PipelineIds : \A t \in TasksOf(p) :
          IsSpawned(t) => \A ch \in Handed(t) : IsSpawned(TaskOf(ch))

\* C11 amended: channels are allocated before the first spawn, so every
\* sender a spawned task holds addresses an allocated channel; in with_script
\* it addresses a task already spawned.
C11_SendersToAllocated ==
    /\ ChannelsBeforeSpawns
    /\ \A p \in PipelineIds : \A t \in TasksOf(p) :
          IsSpawned(t) =>
              \A ch \in Handed(t) :
                  /\ IsAllocated(TaskOf(ch))
                  /\ ~IsAllocated(script[p]) => IsSpawned(TaskOf(ch))

\* In create the Script task runs, holding the sender to a Layout task that
\* is not spawned yet.
C11_Witness ==
    /\ sup.pc = "create_spawn_render"
    /\ IsSpawned(script[sup.id])
    /\ LayoutChan(sup.id) \in Handed(script[sup.id])
    /\ layout[sup.id].state = "allocated"
\* In with_script the Layout task has been handed the senders to the parent's
\* Script task and to its Render task.
C11_WitnessWithScript ==
    /\ sup.pc = "with_script_attach"
    /\ Cardinality(Handed(layout[sup.id])) = 3

\* ---- C12 --------------------------------------------------------------------

\* What exit() has sent: one message, ExitPipelineMsg(self.id), on script_chan.
C12_OneSend ==
    sup.op = "exit" =>
        /\ Sends = {1}
        /\ log[1].chan = pipelines[sup.id].script_chan
        /\ log[1].msg = ExitPipelineMsg(pipelines[sup.id].id)
        /\ log[1].msg.id = sup.id
\* A step of exit() puts nothing on a layout or render channel, and on the
\* script channel only the exit message, and only when it is accepted.
C12_Step ==
    (sup' # sup /\ sup'.op = "exit") =>
        /\ UNCHANGED <<layout, render>>
        /\ LET c == ChanId(pipelines[sup'.id].script_chan)
           IN IF CallStep("exit") /\ ReceiverAlive(script[c])
              THEN script' = Enqueue(script, c, ExitPipelineMsg(sup'.id))
              ELSE script' = script

\* C12: exit() sends one message, the exit-pipeline message with the
\* pipeline's own id, on the script sender, whether it is accepted or not,
\* and nothing to the layout or render task: after a rejected exit() they have
\* no shutdown request from the supervisor.
C12_ExitSendsOnlyToScript == []C12_OneSend /\ [][C12_Step]_vars

\* exit() was rejected and the layout and render tasks run on, with nothing
\* in their queues.
C12_Witness ==
    /\ ExitRejected
    /\ sup.pc = "idle"
    /\ layout[sup.id].state = "running" /\ layout[sup.id].queue = <<>>
    /\ render[sup.id].state = "running" /\ render[sup.id].queue = <<>>
\* exit() was accepted and has returned.
C12_WitnessAccepted ==
    /\ ExitAccepted
    /\ sup.pc = "idle"
    /\ Sends = {1}

\* ---- C13 --------------------------------------------------------------------

\* The task holding the sender of a shutdown channel has signalled it (and
\* ended) or dropped it.
Acknowledged(port) == shutdown[PortKey(port)].sender = "dropped"
\* Nothing to read and the sender still held: recv_opt would block.
Outstanding(port) ==
    /\ shutdown[PortKey(port)].buffered = 0
    /\ shutdown[PortKey(port)].sender # "dropped"

\* C13: when exit() has returned after the script task accepted the exit
\* message, the layout and the render task have each signalled their shutdown
\* sender or dropped it, and both are gone; exit() is never back at idle on the
\* accepted path with an acknowledgment outstanding.
C13_ReturnsAfterBothAcks ==
    (ExitAccepted /\ sup.pc = "idle") =>
        LET self == pipelines[sup.id]
        IN /\ Acknowledged(self.render_shutdown_port)
           /\ Acknowledged(self.layout_shutdown_port)
           /\ ~Outstanding(self.render_shutdown_port)
           /\ ~Outstanding(self.layout_shutdown_port)
           /\ render[ChanId(self.render_chan)].state = "dead"
           /\ layout[ChanId(self.layout_chan)].state = "dead"
           /\ log[2].ev = "recv_opt" /\ log[3].ev = "recv_opt"

\* exit() has returned after the layout task signalled and the render task,
\* which had failed, dropped its sender.
C13_Witness ==
    /\ ExitAccepted
    /\ sup.pc = "idle"
    /\ Len(log) = 4
    /\ log[2].result = "None"
    /\ log[3].result = "Some"
    /\ faults > 0

\* ---- C14 --------------------------------------------------------------------

\* A layout task that has passed the exit on ends without signalling: its
\* shutdown sender is dropped.
LayoutTask_drop(p) ==
    /\ layout[p].state = "exiting"
    /\ LayoutTask_fail(p)

\* The tasks when they follow the shutdown cascade: script passes the exit to
\* layout, layout passes it to render, and layout and render each signal their
\* shutdown sender once or drop it; no task hangs.
CascadeTasks ==
    \/ \E c \in PipelineIds : ScriptTask_handle(c)
    \/ \E p \in PipelineIds : LayoutTask_handle(p)
    \/ \E p \in PipelineIds : LayoutTask_exit(p)
    \/ \E p \in PipelineIds : LayoutTask_drop(p)
    \/ \E p \in PipelineIds : RenderTask_handle(p)
    \/ \E p \in PipelineIds : RenderTask_fail(p)

CascadeNext ==
    \/ create
    \/ with_script
    \/ \E id \in PipelineIds : load(id)
    \/ \E id \in PipelineIds : grant_paint_permission(id)
    \/ \E id \in PipelineIds : revoke_paint_permission(id)
    \/ exit
    \/ \E id \in PipelineIds : to_sendable(id)
    \/ CascadeTasks

\* Every task is a thread of its own that the scheduler keeps running: a task
\* with a message to handle handles it, a layout task that is exiting ends,
\* and a recv_opt that can return does.
CascadeFairness ==
    /\ WF_vars(exit_recv_render)
    /\ WF_vars(exit_recv_layout)
    /\ \A c \in PipelineIds : WF_vars(ScriptTask_handle(c))
    /\ \A p \in PipelineIds : WF_vars(LayoutTask_handle(p))
    /\ \A p \in PipelineIds : WF_vars(LayoutTask_exit(p))
    /\ \A p \in PipelineIds : WF_vars(RenderTask_handle(p))

CascadeSpec == Init /\ [][CascadeNext]_vars /\ CascadeFairness

\* C14: when the script task has accepted the exit message and the tasks follow
\* the shutdown cascade, exit() eventually returns, in whichever order the
\* layout and render acknowledgments arrive.
C14_ExitEventuallyReturns ==
    (ExitAccepted /\ sup.pc \in {"exit_recv_render", "exit_recv_layout"})
        ~> (ExitAccepted /\ sup.pc = "idle")

\* exit() waits for the render acknowledgment, the layout acknowledgment
\* having arrived first.
C14_Witness ==
    /\ ExitAccepted
    /\ sup.pc = "exit_recv_render"
    /\ Outstanding(pipelines[sup.id].render_shutdown_port)
    /\ shutdown[PortKey(pipelines[sup.id].layout_shutdown_port)].buffered = 1
\* The render acknowledgment has arrived and been read, the layout task has
\* yet to signal.
C14_WitnessRenderFirst ==
    /\ ExitAccepted
    /\ sup.pc = "exit_recv_layout"
    /\ log[2].result = "Some"
    /\ layout[sup.id].state = "exiting"
    /\ Outstanding(pipelines[sup.id].layout_shutdown_port)

\* ---- C15 --------------------------------------------------------------------

\* exit() waits for an acknowledgment that no task is going to give: the task
\* holding the sender hangs, or the script task died after accepting the exit
\* message and never passed it on, so that the layout task runs on with
\* nothing to handle.
Stuck ==
    /\ ExitAccepted
    /\ LET self == pipelines[sup.id]
           c == ChanId(self.script_chan)
           l == ChanId(self.layout_chan)
           r == ChanId(self.render_chan)
       IN \/ /\ sup.pc = "exit_recv_render"
             /\ Outstanding(self.render_shutdown_port)
             /\ render[r].state = "hung"
          \/ /\ sup.pc = "exit_recv_layout"
             /\ Outstanding(self.layout_shutdown_port)
             /\ layout[l].state = "hung"
          \/ /\ sup.pc \in {"exit_recv_render", "exit_recv_layout"}
             /\ Outstanding(self.layout_shutdown_port)
             /\ script[c].state = "dead"
             /\ layout[l].state \in {"running", "hung"}
             /\ layout[l].queue = <<>>

\* A read of exit() returns only when its port is ready, and the call goes on
\* only to its next read or its return: it sends nothing more and starts
\* nothing else. While no further task fails, a stuck exit() stays stuck.
C15_Step ==
    /\ (sup.pc = "exit_recv_render" /\ sup' # sup) =>
          /\ recv_opt_ready(pipelines[sup.id].render_shutdown_port)
          /\ sup' = [sup EXCEPT !.pc = "exit_recv_layout"]
          /\ Len(log') = Len(log) + 1 /\ log'[Len(log')].ev = "recv_opt"
    /\ (sup.pc = "exit_recv_layout" /\ sup' # sup) =>
          /\ recv_opt_ready(pipelines[sup.id].layout_shutdown_port)
          /\ sup' = Return(sup, "unit")
    /\ (Stuck /\ faults' = faults) => Stuck'

\* C15: exit() has no timeout, retry or cancellation: once the script task has
\* accepted the exit message, exit() returns only after each shutdown port had
\* a signal or was closed, so when a layout or render task neither signals nor
\* drops its sender exit() never returns.
C15_ExitCanBlockForever ==
    [](Stuck => sup.pc \notin {"idle", "failed"}) /\ [][C15_Step]_vars

\* exit() is blocked on the render port of a render task that hangs.
C15_Witness ==
    /\ Stuck
    /\ Blocked
    /\ render[sup.id].state = "hung"
\* exit() is blocked on the layout port: the script task died with the exit
\* message unhandled, the render task failed, the layout task runs on.
C15_WitnessScriptDied ==
    /\ Stuck
    /\ Blocked
    /\ sup.pc = "exit_recv_layout"
    /\ script[ChanId(pipelines[sup.id].script_chan)].state = "dead"
    /\ layout[sup.id].state = "running"

\* ---- C16 --------------------------------------------------------------------

\* C16: every message with_script sends is sent after it has spawned the new
\* Render and the new Layout task, goes to the parent's script task, and is
\* the attach-layout message carrying the parent pipeline's id, the new
\* pipeline's id, the subpage id and the sender of the new layout task, which
\* is not the parent's.
C16_AttachAfterSpawns ==
    sup.op = "with_script" =>
        LET parent == pipelines[sup.script_pipeline]
        IN \A i \in Sends :
              /\ \E j \in 1..(i - 1) : log[j] = Spawned("Render")
              /\ \E j \in 1..(i - 1) : log[j] = Spawned("Layout")
              /\ IsSpawned(render[sup.id]) /\ IsSpawned(layout[sup.id])
              /\ log[i].chan = parent.script_chan
              /\ log[i].msg.type = "AttachLayoutMsg"
              /\ log[i].msg.info.old_pipeline_id = parent.id
              /\ log[i].msg.info.old_pipeline_id = sup.script_pipeline
              /\ log[i].msg.info.new_pipeline_id = sup.id
              /\ Some(log[i].msg.info.subpage_id) = sup.subpage_id
              /\ log[i].msg.info.layout_chan = layout[sup.id].layout_chan
              /\ log[i].msg.info.layout_chan = LayoutChan(sup.id)
              /\ log[i].msg.info.layout_chan # parent.layout_chan

\* with_script has sent the attach message for pipeline 2 to the script task
\* of pipeline 1, which has it in its queue behind a load message.
C16_Witness ==
    /\ Returned_("with_script")
    /\ Sends # {}
    /\ Len(script[1].queue) = 2
    /\ script[1].queue[1].type = "LoadMsg"
    /\ script[1].queue[2].type = "AttachLayoutMsg"
\* with_script has failed in sending the attach message to a dead script task.
C16_WitnessFailed ==
    /\ sup.op = "with_script"
    /\ sup.pc = "failed"
    /\ Sends # {}

\* ---- C17 --------------------------------------------------------------------

\* The pipeline was built by with_script: it has no script task of its own.
BuiltWithScript(p) ==
    pipelines[p] # NoPipeline /\ ~IsAllocated(script[p])

\* C17: in the queue of a script task, every load or exit-pipeline message
\* for a pipeline built by with_script comes after the attach-layout message
\* for that pipeline, or the task has handled the attach already: a script
\* task takes no load or exit for a pipeline it has not been attached to.
C17_AttachBeforeLoadOrExit ==
    \A c \in PipelineIds :
        LET queue == script[c].queue
        IN \A i \in 1..Len(queue) :
              (queue[i].type \in {"LoadMsg", "ExitPipelineMsg"}
                    /\ queue[i].id # c) =>
                 /\ BuiltWithScript(queue[i].id)
                 /\ pipelines[queue[i].id].script_chan = ScriptChan(c)
                 /\ \/ \E a \in script[c].attached : a[1] = queue[i].id
                    \/ \E j \in 1..(i - 1) :
                          /\ queue[j].type = "AttachLayoutMsg"
                          /\ queue[j].info.new_pipeline_id = queue[i].id

\* The script task of pipeline 1 holds the attach message for pipeline 2 and,
\* behind it, a load message for pipeline 2.
C17_Witness ==
    /\ BuiltWithScript(2)
    /\ Len(script[1].queue) = 2
    /\ script[1].queue[1].type = "AttachLayoutMsg"
    /\ script[1].queue[2] = LoadMsg(2, pipelines[2].url)
\* The script task has handled the attach and now holds the exit message for
\* pipeline 2.
C17_WitnessExit ==
    /\ BuiltWithScript(2)
    /\ script[1].attached # {}
    /\ script[1].queue = <<ExitPipelineMsg(2)>>

\* ---- C18 --------------------------------------------------------------------

\* The tasks that were handed the sender of a shutdown channel, and the
\* Pipelines that hold its receiver.
SenderHolders(kind, p) ==
    {<<what, q>> \in {"Script", "Layout", "Render"} \X PipelineIds :
        ShutdownChan(kind, p) =
            (CASE what = "Script" -> script[q].shutdown_chan
               [] what = "Layout" -> layout[q].shutdown_chan
               [] what = "Render" -> render[q].shutdown_chan)}
ReceiverHolders(kind, p) ==
    {<<field, q>> \in {"layout_shutdown_port", "render_shutdown_port"}
                        \X PipelineIds :
        /\ pipelines[q] # NoPipeline
        /\ ShutdownPort(kind, p) =
              (IF field = "layout_shutdown_port"
               THEN pipelines[q].layout_shutdown_port
               ELSE pipelines[q].render_shutdown_port)}

\* C18: the layout shutdown sender of a pipeline is handed to its Layout task
\* and to no other task, the render shutdown sender to its Render task and to
\* no other, and the Pipeline holds the one receiver of each in the field of
\* that name; a channel is signalled or closed only by the end of its own task.
C18_ShutdownChannelsNotCrossed ==
    \A p \in PipelineIds :
        /\ SenderHolders("layout", p) \subseteq {<<"Layout", p>>}
        /\ SenderHolders("render", p) \subseteq {<<"Render", p>>}
        /\ IsSpawned(layout[p]) => SenderHolders("layout", p) # {}
        /\ IsSpawned(render[p]) => SenderHolders("render", p) # {}
        /\ script[p].shutdown_chan = NoChan
        /\ ReceiverHolders("layout", p) \subseteq {<<"layout_shutdown_port", p>>}
        /\ ReceiverHolders("render", p) \subseteq {<<"render_shutdown_port", p>>}
        /\ pipelines[p] # NoPipeline =>
              /\ ReceiverHolders("layout", p) # {}
              /\ ReceiverHolders("render", p) # {}
        /\ \A v \in sendables[p] :
              DOMAIN v = {"id", "script_chan", "render_chan"}
        /\ shutdown[<<"layout", p>>].buffered <= 1
        /\ shutdown[<<"render", p>>].buffered <= 1
        /\ shutdown[<<"layout", p>>].sender = "dropped" <=>
              (IsSpawned(layout[p]) /\ layout[p].state = "dead")
        /\ shutdown[<<"render", p>>].sender = "dropped" <=>
              (IsSpawned(render[p]) /\ render[p].state = "dead")

\* Both pipelines are built, the second by with_script, and of the four
\* shutdown channels only that of the second layout task has been signalled.
C18_Witness ==
    /\ BuiltWithScript(2)
    /\ shutdown[<<"layout", 2>>].buffered = 1
    /\ shutdown[<<"layout", 1>>].sender = "held"
    /\ shutdown[<<"render", 1>>].sender = "held"
    /\ shutdown[<<"render", 2>>].sender = "held"

\* ---- C19 --------------------------------------------------------------------

\* The load messages in the queue of script task c.
Loads(queue) == {i \in 1..Len(queue) : queue[i].type = "LoadMsg"}

\* create sends nothing and with_script sends no load message.
C19_NoLoadInConstruction ==
    /\ sup.op = "create" => Sends = {}
    /\ sup.op = "with_script" =>
          \A i \in Sends : log[i].msg.type # "LoadMsg"
\* A script queue gains a load message only in a call of load(), and a call
\* of load() on a live script task appends one, with the pipeline's id and
\* url, and returns in the same step.
C19_Step ==
    /\ \A c \in PipelineIds :
          Cardinality(Loads(script'[c].queue))
                > Cardinality(Loads(script[c].queue)) =>
              /\ CallStep("load")
              /\ pipelines[sup'.id].script_chan = ScriptChan(c)
    /\ CallStep("load") =>
          LET self == pipelines[sup'.id]
              c == ChanId(self.script_chan)
          IN /\ UNCHANGED <<pipelines, layout, render, shutdown>>
             /\ IF ReceiverAlive(script[c])
                THEN /\ script' = [script EXCEPT ![c].queue =
                                Append(@, LoadMsg(sup'.id, self.url))]
                     /\ sup'.pc = "idle"
                     /\ log' = <<Sent(self.script_chan,
                                      LoadMsg(self.id, self.url), TRUE),
                                 Returned>>
                ELSE script' = script

\* C19: create and with_script send no load or start message; a load message
\* reaches a script task only through load(), and every load() on a live
\* script task enqueues one load message with the pipeline's id and url and
\* returns without waiting.
C19_LoadOnlyThroughLoad == []C19_NoLoadInConstruction /\ [][C19_Step]_vars

\* load() has been called twice on pipeline 1, whose script task holds the
\* two load messages.
C19_Witness ==
    /\ Returned_("load")
    /\ Cardinality(Loads(script[1].queue)) = 2
    /\ script[1].queue[1] = LoadMsg(1, pipelines[1].url)
\* create has returned and the queues of its tasks are empty.
C19_WitnessCreate ==
    /\ Returned_("create")
    /\ \A t \in TasksOf(sup.id) : t.state = "running" /\ t.queue = <<>>

\* ---- components/net/data_loader.rs -------------------------------------------

\* Length of url.path, in pieces.
MaxPathLen == 4

\* The pieces url.path is made of, and the characters of each.
Pieces == {"a/b", ";base64", ",", "Q", "=", "!"}
Chars(piece) ==
    CASE piece = "a/b" -> <<"a", "/", "b">>
      [] piece = ";base64" -> <<";", "b", "a", "s", "e", "6", "4">>
      [] OTHER -> <<piece>>
Paths == UNION {[1..n -> Pieces] : n \in 0..MaxPathLen}
Schemes == {"data", "http"}

RECURSIVE Flatten(_)
Flatten(path) ==
    IF path = <<>> THEN <<>> ELSE Chars(Head(path)) \o Flatten(Tail(path))

\* The byte of a character (ASCII).
Code ==
    ("a" :> 97) @@ ("b" :> 98) @@ ("e" :> 101) @@ ("s" :> 115) @@ ("Q" :> 81)
    @@ ("4" :> 52) @@ ("6" :> 54) @@ ("/" :> 47) @@ ("," :> 44)
    @@ (";" :> 59) @@ ("=" :> 61) @@ ("!" :> 33)
as_bytes(str) == [i \in 1..Len(str) |-> Code[str[i]]]

\* str.splitn(',', 1): at most one split, at the first comma.
splitn(str) ==
    IF \E i \in 1..Len(str) : str[i] = ","
    THEN LET i == CHOOSE i \in 1..Len(str) :
                      str[i] = "," /\ \A j \in 1..(i - 1) : str[j] # ","
         IN <<SubSeq(str, 1, i - 1), SubSeq(str, i + 1, Len(str))>>
    ELSE <<str>>

ends_with(str, suffix) ==
    /\ Len(str) >= Len(suffix)
    /\ SubSeq(str, Len(str) - Len(suffix) + 1, Len(str)) = suffix
slice_to(str, end) == SubSeq(str, 1, end)

\* Result<~[u8], FromBase64Error> and Result<(), ~str>
Ok(value) == [ok |-> TRUE, value |-> value]
Err(error) == [ok |-> FALSE, error |-> error]

\* serialize::base64: the six bits of a character of the alphabet.
IsBase64Char(c) ==
    \/ Code[c] \in 65..90 \/ Code[c] \in 97..122 \/ Code[c] \in 48..57
    \/ Code[c] \in {43, 45, 47, 95}
Base64Value(c) ==
    CASE Code[c] \in 65..90 -> Code[c] - 65
      [] Code[c] \in 97..122 -> Code[c] - 71
      [] Code[c] \in 48..57 -> Code[c] + 4
      [] Code[c] \in {43, 45} -> 62
      [] Code[c] \in {47, 95} -> 63

\* The end of from_base64: the bytes of an incomplete last group.
from_base64_end(buf, modulus, r) ==
    CASE modulus = 0 -> Ok(r)
      [] modulus = 2 -> Ok(Append(r, (buf \div 2^10) % 256))
      [] modulus = 3 -> Ok(r \o <<(buf \div 2^16) % 256, (buf \div 2^8) % 256>>)
      [] OTHER -> Err("InvalidBase64Length")

\* The loop of from_base64 over the bytes of str from position i. buf is a
\* u32 of which only bits 0 to 29 are ever read: it is kept modulo 2^30.
RECURSIVE from_base64_loop(_, _, _, _, _)
from_base64_loop(str, i, buf, modulus, r) ==
    IF i > Len(str) THEN from_base64_end(buf, modulus, r)
    ELSE IF str[i] = "="
    THEN IF \A j \in (i + 1)..Len(str) : str[j] = "="
         THEN from_base64_end(buf, modulus, r)
         ELSE Err("InvalidBase64Character")
    ELSE IF ~IsBase64Char(str[i]) THEN Err("InvalidBase64Character")
    ELSE LET shifted == ((buf + Base64Value(str[i])) % 2^24) * 64
         IN IF modulus + 1 = 4
            THEN from_base64_loop(str, i + 1, shifted, 0,
                     r \o <<(shifted \div 2^22) % 256,
                            (shifted \div 2^14) % 256,
                            (shifted \div 2^6) % 256>>)
            ELSE from_base64_loop(str, i + 1, shifted, modulus + 1, r)

from_base64(str) == from_base64_loop(str, 1, 0, 0, <<>>)

\* What from_stream_with_str(ct_str) can do: return an Option<MediaType>, or
\* never return. It returns on the content types the tests of this file pass,
\* the empty one and type/subtype; on any other it may return None or loop.
Returns(value) == [returns |-> TRUE, value |-> value]
Loops == [returns |-> FALSE]
from_stream_with_str(ct_str) ==
    CASE ct_str = <<>> -> {Returns(None)}
      [] ct_str = Chars("a/b") -> {Returns(Some(<<"a", "b">>))}
      [] OTHER -> {Returns(None), Loops}

\* resource_task: LoadResponse and ProgressMsg
LoadResponse(metadata) == [metadata |-> metadata, progress_port |-> "progress"]
Metadata(url, content_type) == [final_url |-> url, content_type |-> content_type]
Payload(data) == [type |-> "Payload", data |-> data]
Done(result) == [type |-> "Done", result |-> result]

\* A call load(url, start_chan), about to run.
LoadCall(url) ==
    [pc |-> "load", url |-> url, parts |-> <<>>, is_base64 |-> FALSE,
     ct_str |-> <<>>, start_chan |-> <<>>, progress_chan |-> <<>>]

LoaderInit ==
    /\ loader \in {LoadCall([scheme |-> scheme, path |-> Flatten(path)]) :
                      scheme \in Schemes, path \in Paths}
    /\ pipelines = [p \in PipelineIds |-> NoPipeline]
    /\ script = [p \in PipelineIds |-> NoTask]
    /\ layout = [p \in PipelineIds |-> NoTask]
    /\ render = [p \in PipelineIds |-> NoTask]
    /\ shutdown = [k \in ShutdownKinds \X PipelineIds |-> NoShutdown]
    /\ sup = Idle
    /\ log = <<>>
    /\ sendables = [p \in PipelineIds |-> {}]
    /\ faults = 0

\* The variables of the pipeline code, which the loader does not touch.
pipeline_vars ==
    <<pipelines, script, layout, render, shutdown, sup, log, sendables, faults>>

\* assert!("data" == url.scheme)
data_loader_assert ==
    /\ loader.pc = "load"
    /\ loader' = [loader EXCEPT !.pc = IF loader.url.scheme = "data"
                                        THEN "splitn" ELSE "failed"]
    /\ UNCHANGED pipeline_vars

\* let parts = url.path.splitn(',', 1).collect(); if parts.len() != 2 { .. }
data_loader_splitn ==
    /\ loader.pc = "splitn"
    /\ LET parts == splitn(loader.url.path)
       IN IF Len(parts) # 2
          THEN loader' = [loader EXCEPT
                  !.parts = parts,
                  !.start_chan =
                      Append(@, LoadResponse(Metadata(loader.url, None))),
                  !.progress_chan = Append(@, Done(Err("invalid data uri"))),
                  !.pc = "returned"]
          ELSE loader' = [loader EXCEPT !.parts = parts, !.pc = "content_type"]
    /\ UNCHANGED pipeline_vars

\* if ct_str.ends_with(";base64") { .. }; from_stream_with_str(ct_str);
\* start_sending(start_chan, metadata)
data_loader_content_type ==
    /\ loader.pc = "content_type"
    /\ LET is_base64 == ends_with(loader.parts[1], Chars(";base64"))
           ct_str == IF is_base64
                     THEN slice_to(loader.parts[1],
                                   Len(loader.parts[1]) - Len(Chars(";base64")))
                     ELSE loader.parts[1]
       IN \E content_type \in from_stream_with_str(ct_str) :
              IF ~content_type.returns
              THEN loader' = [loader EXCEPT !.is_base64 = is_base64,
                                            !.ct_str = ct_str,
                                            !.pc = "from_stream_with_str"]
              ELSE loader' = [loader EXCEPT
                      !.is_base64 = is_base64,
                      !.ct_str = ct_str,
                      !.start_chan = Append(@,
                          LoadResponse(Metadata(loader.url,
                                                content_type.value))),
                      !.pc = "payload"]
    /\ UNCHANGED pipeline_vars

\* if is_base64 { match parts[1].from_base64() { .. } } else { .. }
data_loader_payload ==
    /\ loader.pc = "payload"
    /\ LET data == from_base64(loader.parts[2])
           events ==
               IF loader.is_base64
               THEN IF data.ok
                    THEN <<Payload(data.value), Done(Ok(<<>>))>>
                    ELSE <<Done(Err("non-base64 data uri"))>>
               ELSE <<Payload(as_bytes(loader.parts[2])), Done(Ok(<<>>))>>
       IN loader' = [loader EXCEPT !.progress_chan = @ \o events,
                                   !.pc = "returned"]
    /\ UNCHANGED pipeline_vars

LoaderNext ==
    \/ data_loader_assert
    \/ data_loader_splitn
    \/ data_loader_content_type
    \/ data_loader_payload

\* load runs in the resource task, which is scheduled like any other task:
\* a step it can take, it takes.
LoaderSpec == LoaderInit /\ [][LoaderNext]_vars /\ WF_vars(LoaderNext)

\* ---- C20 --------------------------------------------------------------------

\* The sequences of progress events of a finished load.
InvalidDataUri == <<Done(Err("invalid data uri"))>>
NonBase64DataUri == <<Done(Err("non-base64 data uri"))>>
IsPayloadThenDone(progress) ==
    /\ Len(progress) = 2
    /\ progress[1].type = "Payload"
    /\ progress[2] = Done(Ok(<<>>))

\* load has sent one start response and a whole sequence of progress events:
\* the error completion alone, "invalid data uri" when the path has no comma
\* and "non-base64 data uri" when the content type ends in ;base64 and the
\* data is not base64, and otherwise one payload and the successful completion.
C20_Complete ==
    LET path == loader.url.path
        progress == loader.progress_chan
        NoComma == \A i \in 1..Len(path) : path[i] # ","
    IN /\ Len(loader.start_chan) = 1
       /\ \/ progress = InvalidDataUri
          \/ progress = NonBase64DataUri
          \/ IsPayloadThenDone(progress)
       /\ progress = InvalidDataUri <=> NoComma
       /\ progress = NonBase64DataUri =>
             /\ loader.is_base64
             /\ ends_with(loader.parts[1], Chars(";base64"))
             /\ ~from_base64(loader.parts[2]).ok
       /\ (~NoComma /\ ~loader.is_base64) =>
             progress = <<Payload(as_bytes(loader.parts[2])), Done(Ok(<<>>))>>

\* What load has sent so far is no more than that: at most one start response,
\* no progress event before it, and after a completion event nothing.
C20_EventShape ==
    /\ Len(loader.start_chan) <= 1
    /\ loader.progress_chan # <<>> =>
          /\ Len(loader.start_chan) = 1
          /\ \/ loader.progress_chan = InvalidDataUri
             \/ loader.progress_chan = NonBase64DataUri
             \/ IsPayloadThenDone(loader.progress_chan)
    /\ loader.pc = "returned" => C20_Complete

\* C20 as claimed: for every data url, load sends one start response and then
\* either the error completion alone or one payload and the successful
\* completion, and nothing after the completion.
C20_OneStartThenCompletion ==
    []C20_EventShape /\ <>(loader.url.scheme = "data" => C20_Complete)

\* load has returned after a payload decoded from base64.
C20_Witness ==
    /\ loader.pc = "returned"
    /\ loader.is_base64
    /\ loader.progress_chan = <<Payload(<<65>>), Done(Ok(<<>>))>>
\* load has returned after the error completion for data that is not base64.
C20_WitnessNonBase64 ==
    /\ loader.pc = "returned"
    /\ loader.progress_chan = NonBase64DataUri
\* load never returns: the content type parser loops, and nothing was sent.
C20_WitnessLoops ==
    /\ loader.pc = "from_stream_with_str"
    /\ loader.start_chan = <<>>
    /\ loader.progress_chan = <<>>

====
